---- MODULE Spec2Model ----
(***************************************************************************)
(* doc-srv: the document repository (DocRepository) of the server.         *)
(*                                                                         *)
(* GetSections answers from a TTL cache guarded by a sync.RWMutex and      *)
(* refreshes it with scan(), a recursive walk of the document directory.  *)
(* Strings are sequences of bytes; a Go slice is a record that keeps the   *)
(* nil / non-nil distinction next to its elements.                         *)
(***************************************************************************)
EXTENDS Integers, Sequences, FiniteSets, TLC

-----------------------------------------------------------------------------
(* Bounds of the model *)

\* number of goroutines calling GetSections
NumProcs == 2
\* the clock runs from 0 to MaxTime
MaxTime == 1
\* the repository is constructed with a ttl in 0..MaxTTL
MaxTTL == 1
\* the largest number of entries in a tree handed to scan on its own
MaxFiles == 4
\* the rotating writer is constructed with a maxSize in 1..MaxLogSize
MaxLogSize == 2
\* a Write has at most MaxWriteLen bytes
MaxWriteLen == 2
\* number of requests handed to loggingMiddleware, each on its goroutine
NumRequests == 1
\* a handler calls WriteHeader and Write at most MaxOps times in all
MaxOps == 2

Procs == 1..NumProcs

-----------------------------------------------------------------------------
(* Strings (package strings, sort.Strings) *)

Slash == 47

\* unicode.ToLower on one byte of an ASCII name
LowerByte(c) == IF c >= 65 /\ c <= 90 THEN c + 32 ELSE c

ToLower(s) == [i \in 1..Len(s) |-> LowerByte(s[i])]

HasPrefix(s, pre) ==
    /\ Len(s) >= Len(pre)
    /\ SubSeq(s, 1, Len(pre)) = pre

HasSuffix(s, suf) ==
    /\ Len(s) >= Len(suf)
    /\ SubSeq(s, Len(s) - Len(suf) + 1, Len(s)) = suf

\* the < of Go strings: byte-wise lexicographic order
StrLess(a, b) ==
    \E i \in 1..(Len(b)) :
        /\ i <= Len(a) + 1
        /\ \A j \in 1..(i - 1) : a[j] = b[j]
        /\ \/ i = Len(a) + 1
           \/ a[i] < b[i]

\* ".pdf", "readme.md", "/docs/", ".", "http://", "https://"
PdfExt == <<46, 112, 100, 102>>
ReadmeName == <<114, 101, 97, 100, 109, 101, 46, 109, 100>>
DocsBase == <<47, 100, 111, 99, 115, 47>>
Dot == <<46>>
HttpScheme == <<104, 116, 116, 112, 58, 47, 47>>
HttpsScheme == <<104, 116, 116, 112, 115, 58, 47, 47>>
\* "Общее" in UTF-8
GeneralName == <<208, 158, 208, 177, 209, 137, 208, 181, 208, 181>>

-----------------------------------------------------------------------------
(* Go slices *)

NilSlice == [isNil |-> TRUE, elems |-> <<>>]

\* append(s, e): the result of append is never nil
AppendSlice(s, e) == [isNil |-> FALSE, elems |-> Append(s.elems, e)]

-----------------------------------------------------------------------------
(* The file system under r.dir.  A tree is a set of entries: the regular   *)
(* files, and the directories that cannot be read (the other directories   *)
(* are there through the files below them).  An entry is its path below    *)
(* the root as a sequence of components, plus, for a README, whether it    *)
(* can be read and the nodes of its content: each node is a text, a link   *)
(* or an image, the last two with a destination.                           *)

\* filepath.Separator of the host (a Unix host)
Separator == Slash

\* filepath.ToSlash
ToSlash(s) == [i \in 1..Len(s) |-> IF s[i] = Separator THEN Slash ELSE s[i]]

RECURSIVE JoinPath(_)
\* filepath.Join of the components of a relative path
JoinPath(comps) ==
    IF Len(comps) = 0 THEN <<>>
    ELSE IF Len(comps) = 1 THEN comps[1]
    ELSE comps[1] \o <<Separator>> \o JoinPath(Tail(comps))

\* d.Name()
BaseName(f) == f.path[Len(f.path)]

\* filepath.Rel(r.dir, path)
Rel(f) == JoinPath(f.path)

\* the directory directly under the root in which, or below which, a
\* file is
DirRelTop(f) == IF Len(f.path) = 1 THEN Dot ELSE f.path[1]

\* filepath.Dir(rel): "." for a file directly under the root
DirRel(f) ==
    IF Len(f.path) = 1 THEN Dot
    ELSE JoinPath(SubSeq(f.path, 1, Len(f.path) - 1))

\* path a is a proper ancestor of path b
IsAbove(a, b) == Len(a) < Len(b) /\ SubSeq(b, 1, Len(a)) = a

\* the order in which filepath.WalkDir visits two entries: a directory
\* before what is below it, the entries of one directory in the order of
\* their names, depth first
WalkBefore(f, g) ==
    \/ IsAbove(f.path, g.path)
    \/ \E i \in 1..Len(g.path) :
          /\ i <= Len(f.path)
          /\ \A j \in 1..(i - 1) : f.path[j] = g.path[j]
          /\ StrLess(f.path[i], g.path[i])

\* the entries WalkDir reaches: os.ReadDir fails on a directory that cannot
\* be read, walkFn is told, logs it and returns nil, and nothing below that
\* directory is visited
Reached(files) ==
    {f \in files :
        ~\E d \in files :
            d.kind = "dir" /\ ~d.readable /\ IsAbove(d.path, f.path)}

RECURSIVE WalkOrder(_)
\* the files of a tree in the order WalkDir hands them to walkFn
WalkOrder(files) ==
    IF files = {} THEN <<>>
    ELSE LET first == CHOOSE f \in files :
                          \A g \in files \ {f} : WalkBefore(f, g)
         IN  <<first>> \o WalkOrder(files \ {first})

-----------------------------------------------------------------------------
(* renderReadme *)

\* an isRelativeURL that compares the destination as it is written
isRelativeURLExact(u) ==
    IF HasPrefix(u, HttpScheme) \/ HasPrefix(u, HttpsScheme)
    THEN FALSE
    ELSE ~HasPrefix(u, <<Slash>>)

\* isRelativeURL: not http://, not https://, not starting with "/"
isRelativeURL(u) ==
    LET lower == ToLower(u)
    IN  IF HasPrefix(lower, HttpScheme) \/ HasPrefix(lower, HttpsScheme)
        THEN FALSE
        ELSE ~HasPrefix(lower, <<Slash>>)

\* the rewrite closure of renderReadme: a relative destination is put
\* under basePrefix, any other destination is returned as it is
rewrite(dest, basePrefix) ==
    IF isRelativeURL(dest) THEN basePrefix \o dest ELSE dest

\* a renderReadme that renders a message in place of a README it cannot
\* read
renderReadmeMessage(f, relDir) ==
    IF ~f.readable
    THEN [err |-> FALSE, html |-> <<[kind |-> "text", dest |-> <<>>]>>]
    ELSE LET basePrefix == DocsBase \o relDir \o <<Slash>>
         IN  [err |-> FALSE,
              html |-> [i \in 1..Len(f.nodes) |->
                          IF f.nodes[i].kind \in {"image", "link"}
                          THEN [kind |-> f.nodes[i].kind,
                                dest |-> rewrite(f.nodes[i].dest, basePrefix)]
                          ELSE f.nodes[i]]]

\* renderReadme(path, relDir): the rendered nodes of the README, with the
\* destination of every link and image rewritten; err when os.ReadFile fails.
\* The HTML of a README without nodes is the empty string.
renderReadme(f, relDir) ==
    IF ~f.readable THEN [err |-> TRUE, html |-> <<>>]
    ELSE LET basePrefix == DocsBase \o relDir \o <<Slash>>
         IN  [err |-> FALSE,
              html |-> [i \in 1..Len(f.nodes) |->
                          IF f.nodes[i].kind \in {"image", "link"}
                          THEN [kind |-> f.nodes[i].kind,
                                dest |-> rewrite(f.nodes[i].dest, basePrefix)]
                          ELSE f.nodes[i]]]

-----------------------------------------------------------------------------
(* scan *)

\* what scan has collected so far: generalDocs and sectionsMap
EmptyWalk == [generalDocs |-> NilSlice, sectionsMap |-> <<>>]

\* a walkFn that keeps only the PDFs of the root out of sectionsMap
walkFnRootAsDir(acc, f) ==
    LET lowerName == ToLower(BaseName(f))
        dirRel == DirRel(f)
        rel == Rel(f)
        sm == IF dirRel \in DOMAIN acc.sectionsMap
              THEN acc.sectionsMap
              ELSE acc.sectionsMap @@
                   (dirRel :> [Name |-> ToSlash(dirRel),
                               Documents |-> NilSlice,
                               Readme |-> <<>>])
        readme == renderReadme(f, ToSlash(dirRel))
    IN  IF f.kind = "dir" THEN acc
        ELSE IF dirRel = Dot /\ HasSuffix(lowerName, PdfExt)
        THEN [acc EXCEPT !.generalDocs =
                  AppendSlice(@, [Name |-> BaseName(f),
                                  URL |-> DocsBase \o BaseName(f)])]
        ELSE IF HasSuffix(lowerName, PdfExt)
        THEN [acc EXCEPT !.sectionsMap =
                  [sm EXCEPT ![dirRel].Documents =
                       AppendSlice(@, [Name |-> BaseName(f),
                                       URL |-> DocsBase \o ToSlash(rel)])]]
        ELSE IF lowerName = ReadmeName /\ ~readme.err
        THEN [acc EXCEPT !.sectionsMap =
                  [sm EXCEPT ![dirRel].Readme = readme.html]]
        ELSE [acc EXCEPT !.sectionsMap = sm]

\* walkFn for one entry below the root (the root itself and the
\* directories return nil without touching generalDocs or sectionsMap)
walkFn(acc, f) ==
    LET lowerName == ToLower(BaseName(f))
        dirRel == DirRel(f)
        rel == Rel(f)
        sm == IF dirRel \in DOMAIN acc.sectionsMap
              THEN acc.sectionsMap
              ELSE acc.sectionsMap @@
                   (dirRel :> [Name |-> ToSlash(dirRel),
                               Documents |-> NilSlice,
                               Readme |-> <<>>])
        readme == renderReadme(f, ToSlash(dirRel))
    IN  IF f.kind = "dir" THEN acc
        ELSE IF dirRel = Dot
        THEN IF HasSuffix(lowerName, PdfExt)
             THEN [acc EXCEPT !.generalDocs =
                       AppendSlice(@, [Name |-> BaseName(f),
                                       URL |-> DocsBase \o BaseName(f)])]
             ELSE acc
        ELSE IF HasSuffix(lowerName, PdfExt)
        THEN [acc EXCEPT !.sectionsMap =
                  [sm EXCEPT ![dirRel].Documents =
                       AppendSlice(@, [Name |-> BaseName(f),
                                       URL |-> DocsBase \o ToSlash(rel)])]]
        ELSE IF lowerName = ReadmeName /\ ~readme.err
        THEN [acc EXCEPT !.sectionsMap =
                  [sm EXCEPT ![dirRel].Readme = readme.html]]
        ELSE [acc EXCEPT !.sectionsMap = sm]

RECURSIVE WalkDir(_, _)
\* filepath.WalkDir(r.dir, walkFn) over the files in walk order
WalkDir(acc, files) ==
    IF Len(files) = 0 THEN acc
    ELSE WalkDir(walkFn(acc, Head(files)), Tail(files))

RECURSIVE InsertDocByName(_, _)
\* an insertion that compares the names as they are
InsertDocByName(sorted, d) ==
    IF Len(sorted) = 0 THEN <<d>>
    ELSE IF StrLess(d.Name, Head(sorted).Name)
    THEN <<d>> \o sorted
    ELSE <<Head(sorted)>> \o InsertDocByName(Tail(sorted), d)

RECURSIVE InsertDoc(_, _)
\* puts d after the documents of the sorted sequence that are not above it
InsertDoc(sorted, d) ==
    IF Len(sorted) = 0 THEN <<d>>
    ELSE IF StrLess(ToLower(d.Name), ToLower(Head(sorted).Name))
    THEN <<d>> \o sorted
    ELSE <<Head(sorted)>> \o InsertDoc(Tail(sorted), d)

RECURSIVE SortDocElems(_)
SortDocElems(docs) ==
    IF Len(docs) = 0 THEN <<>>
    ELSE InsertDoc(SortDocElems(SubSeq(docs, 1, Len(docs) - 1)), docs[Len(docs)])

\* sort.Slice(docs, by strings.ToLower(Name)): sorts in place
SortDocs(docs) == [docs EXCEPT !.elems = SortDocElems(@)]

\* a key in which the separator counts as less than every other byte
UnderSeparator(k) == [i \in 1..Len(k) |-> IF k[i] = Separator THEN 0 ELSE k[i]]

RECURSIVE SortStringsByPath(_)
\* a sort of the keys component by component, the order of the walk
SortStringsByPath(keys) ==
    IF keys = {} THEN <<>>
    ELSE LET least == CHOOSE k \in keys :
                          \A o \in keys \ {k} :
                              StrLess(UnderSeparator(k), UnderSeparator(o))
         IN  <<least>> \o SortStringsByPath(keys \ {least})

RECURSIVE SortStrings(_)
\* sort.Strings(keys) of the keys of sectionsMap
SortStrings(keys) ==
    IF keys = {} THEN <<>>
    ELSE LET least == CHOOSE k \in keys : \A o \in keys \ {k} : StrLess(k, o)
         IN  <<least>> \o SortStrings(keys \ {least})

RECURSIVE AppendSectionsAll(_, _, _)
\* a loop over the sorted keys that skips nothing
AppendSectionsAll(sections, keys, sectionsMap) ==
    IF Len(keys) = 0 THEN sections
    ELSE AppendSectionsAll(
             AppendSlice(sections,
                         [sectionsMap[Head(keys)]
                             EXCEPT !.Documents = SortDocs(@)]),
             Tail(keys), sectionsMap)

RECURSIVE AppendSections(_, _, _)
\* the loop over the sorted keys: empty sections are skipped
AppendSections(sections, keys, sectionsMap) ==
    IF Len(keys) = 0 THEN sections
    ELSE LET sec == sectionsMap[Head(keys)]
         IN  IF Len(sec.Documents.elems) = 0 /\ sec.Readme = <<>>
             THEN AppendSections(sections, Tail(keys), sectionsMap)
             ELSE AppendSections(
                      AppendSlice(sections,
                                  [sec EXCEPT !.Documents = SortDocs(@)]),
                      Tail(keys), sectionsMap)

\* the assembly of scan's result from generalDocs and sectionsMap
Assemble(acc) ==
    LET general ==
            IF Len(acc.generalDocs.elems) > 0
            THEN AppendSlice(NilSlice,
                             [Name |-> GeneralName,
                              Documents |-> SortDocs(acc.generalDocs),
                              Readme |-> <<>>])
            ELSE NilSlice
    IN  AppendSections(general, SortStrings(DOMAIN acc.sectionsMap),
                       acc.sectionsMap)

\* the part of scan after os.Stat succeeded: when the root is no longer a
\* directory WalkDir reports that to walkFn, which logs it and returns nil,
\* and nothing is found
ScanWalk(root, files) ==
    IF root = "dir"
    THEN Assemble(WalkDir(EmptyWalk, WalkOrder(Reached(files))))
    ELSE Assemble(EmptyWalk)

\* os.Stat(r.dir) fails: nothing is there, or the path to it cannot be
\* searched.  It succeeds on a regular file and on a directory that
\* cannot be read.
StatFails(root) == root \in {"missing", "noaccess"}

-----------------------------------------------------------------------------
(* The document trees the directory goes through *)

\* a regular file without content of interest
File(path) ==
    [kind |-> "file", path |-> path, nodes |-> <<>>, readable |-> TRUE]

\* a README with the given nodes
Readme(path, nodes) ==
    [kind |-> "file", path |-> path, nodes |-> nodes, readable |-> TRUE]

\* a file that os.ReadFile cannot read
Unreadable(f) == [f EXCEPT !.readable = FALSE]

\* a directory that os.ReadDir cannot read
UnreadableDir(path) ==
    [kind |-> "dir", path |-> path, nodes |-> <<>>, readable |-> FALSE]

\* names: "a.pdf", "B.PDF", "n.txt", "HR", "h.pdf", "README.md", "img.png"
NameA == <<97, 46, 112, 100, 102>>
NameB == <<66, 46, 80, 68, 70>>
NameN == <<110, 46, 116, 120, 116>>
NameHR == <<72, 82>>
NameH == <<104, 46, 112, 100, 102>>
NameReadme == <<82, 69, 65, 68, 77, 69, 46, 109, 100>>
NameImg == <<105, 109, 103, 46, 112, 110, 103>>

\* an empty directory, or one with nothing but ignored files
TreeEmpty == {File(<<NameN>>)}
\* one PDF directly under the root (TestDocRepository_CacheTTL)
TreeOne == {File(<<NameA>>)}
\* root PDFs and a subdirectory with a PDF and a README
TreeHR == {File(<<NameB>>), File(<<NameA>>), File(<<NameHR, NameH>>),
           Readme(<<NameHR, NameReadme>>,
                  <<[kind |-> "text", dest |-> <<>>],
                    [kind |-> "image", dest |-> NameImg]>>)}

Trees == {TreeEmpty, TreeOne, TreeHR}

\* the root is a directory, or does not exist
RootStates == {"dir", "missing"}

\* the states of the file system: only a directory has files below it
FileSystems ==
    {[root |-> "dir", tree |-> t] : t \in Trees} \cup
    {[root |-> r, tree |-> {}] : r \in RootStates \ {"dir"}}

\* more names: "2025", "p.pdf", "HR-old", "H.PDF"
Name2025 == <<50, 48, 50, 53>>
NameP == <<112, 46, 112, 100, 102>>
NameHROld == <<72, 82, 45, 111, 108, 100>>
NameHUpper == <<72, 46, 80, 68, 70>>

\* destinations: "/a", "http://x", "HTTPS://x", "http:x"
DestAbs == <<47, 97>>
DestHttp == <<104, 116, 116, 112, 58, 47, 47, 120>>
DestHttpsUpper == <<72, 84, 84, 80, 83, 58, 47, 47, 120>>
DestNoSlashes == <<104, 116, 116, 112, 58, 120>>

\* the content of a README: text, an image and links of every kind
ReadmeNodes ==
    <<[kind |-> "text", dest |-> <<>>],
      [kind |-> "image", dest |-> NameImg],
      [kind |-> "link", dest |-> DestAbs],
      [kind |-> "link", dest |-> DestHttp],
      [kind |-> "link", dest |-> DestHttpsUpper],
      [kind |-> "link", dest |-> DestNoSlashes],
      [kind |-> "link", dest |-> <<>>]>>

\* the entries the trees handed to scan are made of: PDFs, READMEs and
\* other files under the root, in directories and in directories of
\* directories; a README without content and one that cannot be read; two
\* READMEs in one directory; a PDF that cannot be read; a directory that
\* cannot be read; a directory called like the section of the root; two
\* READMEs under the root, one of which cannot be read
ScanEntries ==
    {File(<<NameA>>), File(<<NameB>>), File(<<NameN>>),
     Readme(<<NameReadme>>, ReadmeNodes),
     Unreadable(Readme(<<ReadmeName>>, ReadmeNodes)),
     File(<<NameHR, NameH>>), File(<<NameHR, NameHUpper>>),
     File(<<NameHR, NameN>>),
     Readme(<<NameHR, NameReadme>>, ReadmeNodes),
     Readme(<<NameHR, ReadmeName>>, <<>>),
     File(<<NameHR, Name2025, NameP>>),
     Readme(<<NameHR, Name2025, NameReadme>>, ReadmeNodes),
     File(<<NameHROld, NameB>>),
     Unreadable(File(<<NameHROld, NameP>>)),
     Readme(<<NameHROld, NameReadme>>, <<>>),
     UnreadableDir(<<NameHR>>),
     File(<<GeneralName, NameA>>),
     Unreadable(Readme(<<GeneralName, NameReadme>>, ReadmeNodes))}

ScanTrees == {t \in SUBSET ScanEntries : Cardinality(t) <= MaxFiles}

\* what r.dir can be: a directory, nothing, a path that cannot be reached,
\* a regular file, a directory that cannot be read
ScanRootStates == {"dir", "missing", "noaccess", "file", "unreadable"}

ScanInputs ==
    {[root |-> "dir", tree |-> t] : t \in ScanTrees} \cup
    {[root |-> r, tree |-> {}] : r \in ScanRootStates \ {"dir"}}

-----------------------------------------------------------------------------
(* DocRepository and the goroutines calling GetSections *)

VARIABLES
    fs,           \* r.dir on disk: what the root is and the files below it
    now,          \* the clock read by time.Now and time.Since
    ttl,          \* r.ttl
    cache,        \* r.cache
    cacheTime,    \* r.cacheTime: the zero Time, or the instant `at`
    readers,      \* r.mu: the goroutines holding the read lock
    w,            \* r.mu: the goroutine that has called Lock and not yet
                  \* Unlock (0: none); readers arriving after it wait
    pc,           \* where each goroutine is in GetSections
    sections,     \* the local variable sections of each goroutine
    ret,          \* the return values of the call, once they are decided
    snap,         \* history: (cache, cacheTime) when the write lock was
                  \* last acquired
    lastRefresh,  \* history: the last successful refresh
    inWindow,     \* history: a refresh had completed when the call began,
                  \* none has completed since, and the call's first
                  \* freshness test came before that refresh's ttl expired
    failedSince,  \* history: a call has returned an error and no refresh
                  \* has succeeded since
    quiet,        \* history: since the call began the directory has not
                  \* changed and the ttl of the latest refresh has not
                  \* run out
    prev,         \* history: what the last such call returned, as long
                  \* as the directory and the ttl window stay the same
    track,        \* which history a behaviour records: "refresh" (snap,
                  \* inWindow, failedSince) or "calls" (quiet, prev);
                  \* lastRefresh is recorded in both
    rw,           \* the rotatingWriter: file (open or nil), size, maxSize
    disk,         \* the log file at rw.filename and the file it was last
                  \* renamed to: whether each exists, and its bytes
    wret,         \* the last Write: its argument p and what it returned
    req,          \* the requests the server is handed: for each, how far
                  \* loggingMiddleware has come with it, its path, the
                  \* loggingResponseWriter and the response under it
    lines         \* the lines written to accessLog, oldest first

vars == <<fs, now, ttl, cache, cacheTime, readers, w, pc, sections, ret,
          snap, lastRefresh, inWindow, failedSince, quiet, prev, track,
          rw, disk, wret, req, lines>>

repoVars == <<fs, now, ttl, cache, cacheTime, readers, w, pc, sections, ret,
              snap, lastRefresh, inWindow, failedSince, quiet, prev, track>>

logVars == <<rw, disk, wret>>

mwVars == <<req, lines>>

-----------------------------------------------------------------------------
(* loggingMiddleware: the requests are served by goroutines of their own,   *)
(* one request each.  A request is its URL path; the wrapped handler is any *)
(* sequence of at most MaxOps calls of WriteHeader and Write on the         *)
(* loggingResponseWriter it is handed.                                      *)

Requests == 1..NumRequests

HealthzPath == "/healthz"

\* the paths of the requests: the health check, a document, and a path
\* that only begins like the health check
Paths == {HealthzPath, "/docs/test", "/healthz/x"}

\* the status codes a handler passes to WriteHeader
StatusCodes == {201, 404}

StatusOK == 200

\* &loggingResponseWriter{ResponseWriter: w}: status and bytes are zero
NewLoggingResponseWriter == [status |-> 0, bytes |-> 0]

\* what the handler has called so far: the code of its latest WriteHeader
\* (0: none), whether it has called Write, and the bytes its Writes
\* reported as written
NoCalls == [code |-> 0, wrote |-> FALSE, written |-> 0]

\* a goroutine that has not been handed its request
NoRequest ==
    [phase |-> "idle", path |-> "", lrw |-> NewLoggingResponseWriter,
     sent |-> 0, calls |-> 0, hist |-> NoCalls]

\* no request is being served and accessLog is empty
NoRequests ==
    /\ req = [r \in Requests |-> NoRequest]
    /\ lines = <<>>

-----------------------------------------------------------------------------
(* rotatingWriter: the bytes are sequences over LogBytes; a file is        *)
(* whether it exists and its bytes.  The state the methods work on is the  *)
(* pair of the writer and the disk.                                        *)

LogBytes == {97, 98}

\* the sequences over S of length at most n
BoundedSeq(S, n) == UNION {[1..k -> S] : k \in 0..n}

\* the arguments of Write
Payloads == BoundedSeq(LogBytes, MaxWriteLen)

NoFile == [exists |-> FALSE, data |-> <<>>]
NoWrite == [p |-> <<>>, n |-> 0, err |-> FALSE]

\* no rotating writer has been constructed
NoWriter ==
    /\ rw = [file |-> FALSE, size |-> 0, maxSize |-> 0]
    /\ disk = [log |-> NoFile, rotated |-> NoFile]
    /\ wret = NoWrite

\* rw.open(): os.OpenFile with O_CREATE|O_WRONLY|O_APPEND and f.Stat(); when
\* either fails nothing changes
open(st, ok) ==
    IF ~ok THEN [st |-> st, err |-> TRUE]
    ELSE [st |-> [rw |-> [st.rw EXCEPT !.file = TRUE,
                                       !.size = Len(st.disk.log.data)],
                  disk |-> [st.disk EXCEPT !.log.exists = TRUE]],
          err |-> FALSE]

\* rw.rotate(): the file is closed and rw.file set to nil, then the log is
\* renamed, then opened again
rotate(st, renameOK, openOK) ==
    LET closed == [st EXCEPT !.rw.file = FALSE]
    IN  IF ~renameOK \/ ~st.disk.log.exists
        THEN [st |-> closed, err |-> TRUE]
        ELSE open([closed EXCEPT !.disk = [log |-> NoFile,
                                           rotated |-> st.disk.log]],
                  openOK)

\* a test that also rotates when the write fills the file to maxSize
NeedsRotateAtLimit(size, n, maxSize) == size + n >= maxSize

\* rw.size+int64(len(p)) > rw.maxSize
NeedsRotate(size, n, maxSize) == size + n > maxSize

\* rw.file.Write(p): a nil *os.File returns 0 and os.ErrInvalid; an open
\* one appends the first n bytes of p, and fails if those are not all
fileWrite(st, p, n) ==
    IF ~st.rw.file THEN [st |-> st, n |-> 0, err |-> TRUE]
    ELSE [st |-> [st EXCEPT !.disk.log.data = @ \o SubSeq(p, 1, n)],
          n |-> n,
          err |-> n < Len(p)]

\* the body of Write under rw.mu: open when rw.file is nil, rotate when the
\* write would take the size over maxSize (a failure of rotate is only
\* reported on stderr), write, add n to rw.size
WriteBody(st, p, openOK, renameOK, reopenOK, n) ==
    LET opened == IF st.rw.file THEN [st |-> st, err |-> FALSE]
                  ELSE open(st, openOK)
    IN  IF opened.err THEN [st |-> st, n |-> 0, err |-> TRUE]
        ELSE LET rotated ==
                     IF NeedsRotate(opened.st.rw.size, Len(p),
                                    opened.st.rw.maxSize)
                     THEN rotate(opened.st, renameOK, reopenOK).st
                     ELSE opened.st
                 written == fileWrite(rotated, p, n)
             IN  [st |-> [written.st EXCEPT !.rw.size = @ + written.n],
                  n |-> written.n,
                  err |-> written.err]

histVars == <<snap, lastRefresh, inWindow, failedSince, quiet, prev, track>>

ZeroTime == [zero |-> TRUE, at |-> 0]
TimeAt(t) == [zero |-> FALSE, at |-> t]

NoRet == [src |-> "none", err |-> FALSE, list |-> NilSlice]
NoRefresh == [done |-> FALSE, at |-> 0, list |-> NilSlice]
NoSnap == [cache |-> NilSlice, cacheTime |-> ZeroTime]
NoPrev == [set |-> FALSE, err |-> FALSE, list |-> NilSlice]
Returned(r) == [set |-> TRUE, err |-> r.err, list |-> r.list]

\* the new value of a history variable: it moves only in the behaviours
\* that record it
Rec(kind, new, old) == IF track = kind THEN new ELSE old

\* a freshness test that still accepts a cache whose age has reached ttl
FreshInclusive == ~cacheTime.zero /\ now - cacheTime.at <= ttl /\ ~cache.isNil

\* a comparison that still holds when the age has reached d
SinceAtMost(t, d) == ~t.zero /\ now - t.at <= d

\* time.Since(t) < d: the zero Time lies further back than any Duration
SinceLess(t, d) == ~t.zero /\ now - t.at < d

\* the condition of both ifs of GetSections
Fresh == SinceLess(cacheTime, ttl) /\ ~cache.isNil

\* NewDocRepository(dir, cacheTTL)
NewDocRepository(dirs, ttls) ==
    /\ fs \in dirs
    /\ now = 0
    /\ ttl \in ttls
    /\ cache = NilSlice
    /\ cacheTime = ZeroTime
    /\ readers = {}
    /\ w = 0
    /\ pc = [p \in Procs |-> "idle"]
    /\ sections = [p \in Procs |-> NilSlice]
    /\ ret = [p \in Procs |-> NoRet]
    /\ snap = NoSnap
    /\ lastRefresh = NoRefresh
    /\ inWindow = [p \in Procs |-> FALSE]
    /\ failedSince = FALSE
    /\ quiet = [p \in Procs |-> FALSE]
    /\ prev = NoPrev

Init ==
    /\ NewDocRepository(FileSystems, 0..MaxTTL)
    /\ track = "refresh"
    /\ NoWriter
    /\ NoRequests

CallsInit ==
    /\ NewDocRepository(FileSystems, 0..MaxTTL)
    /\ track = "calls"
    /\ NoWriter
    /\ NoRequests

\* a repository on any of the directories handed to scan
ScanInit ==
    /\ NewDocRepository(ScanInputs, {MaxTTL})
    /\ track = "refresh"
    /\ NoWriter
    /\ NoRequests

\* a goroutine calls GetSections
Call(p) ==
    /\ pc[p] = "idle"
    /\ pc' = [pc EXCEPT ![p] = "RLock"]
    /\ inWindow' = Rec("refresh",
                       [inWindow EXCEPT ![p] = lastRefresh.done], inWindow)
    /\ quiet' = Rec("calls", [quiet EXCEPT ![p] = TRUE], quiet)
    /\ UNCHANGED <<fs, now, ttl, cache, cacheTime, readers, w, sections, ret,
                   snap, lastRefresh, failedSince, prev, track>>
    /\ UNCHANGED <<logVars, mwVars>>

\* a read lock that is granted while a writer holds the lock
RLockDuringWrite(p) ==
    /\ pc[p] = "RLock"
    /\ readers' = readers \cup {p}
    /\ pc' = [pc EXCEPT ![p] = "check"]
    /\ UNCHANGED <<fs, now, ttl, cache, cacheTime, w, sections, ret,
                   histVars>>
    /\ UNCHANGED <<logVars, mwVars>>

\* r.mu.RLock(): waits while a writer holds or has requested the lock
RLock(p) ==
    /\ pc[p] = "RLock"
    /\ w = 0
    /\ readers' = readers \cup {p}
    /\ pc' = [pc EXCEPT ![p] = "check"]
    /\ UNCHANGED <<fs, now, ttl, cache, cacheTime, w, sections, ret,
                   histVars>>
    /\ UNCHANGED <<logVars, mwVars>>

\* the first if: a fresh cache is the return value
CheckRead(p) ==
    /\ pc[p] = "check"
    /\ IF Fresh
       THEN /\ ret' = [ret EXCEPT ![p] =
                         [src |-> "cache", err |-> FALSE, list |-> cache]]
            /\ pc' = [pc EXCEPT ![p] = "RUnlockReturn"]
       ELSE /\ pc' = [pc EXCEPT ![p] = "RUnlock"]
            /\ UNCHANGED ret
    /\ inWindow' = [inWindow EXCEPT ![p] = @ /\ now < lastRefresh.at + ttl]
    /\ UNCHANGED <<fs, now, ttl, cache, cacheTime, readers, w, sections,
                   snap, lastRefresh, failedSince, quiet, prev, track>>
    /\ UNCHANGED <<logVars, mwVars>>

\* the deferred r.mu.RUnlock() and the return of the cached list
ReturnCached(p) ==
    /\ pc[p] = "RUnlockReturn"
    /\ readers' = readers \ {p}
    /\ pc' = [pc EXCEPT ![p] = "idle"]
    /\ ret' = [ret EXCEPT ![p] = NoRet]
    /\ inWindow' = [inWindow EXCEPT ![p] = FALSE]
    /\ quiet' = [quiet EXCEPT ![p] = FALSE]
    /\ prev' = IF quiet[p] THEN Returned(ret[p]) ELSE prev
    /\ UNCHANGED <<fs, now, ttl, cache, cacheTime, w, sections, snap,
                   lastRefresh, failedSince, track>>
    /\ UNCHANGED <<logVars, mwVars>>

\* a caller that asks for the write lock while it keeps the read lock
RUnlockLater(p) ==
    /\ pc[p] = "RUnlock"
    /\ pc' = [pc EXCEPT ![p] = "Lock"]
    /\ UNCHANGED <<fs, now, ttl, cache, cacheTime, readers, w, sections, ret,
                   histVars>>
    /\ UNCHANGED <<logVars, mwVars>>

\* r.mu.RUnlock() of a caller that found the cache expired or empty
RUnlock(p) ==
    /\ pc[p] = "RUnlock"
    /\ readers' = readers \ {p}
    /\ pc' = [pc EXCEPT ![p] = "Lock"]
    /\ UNCHANGED <<fs, now, ttl, cache, cacheTime, w, sections, ret,
                   histVars>>
    /\ UNCHANGED <<logVars, mwVars>>

\* a Lock that does not exclude the other writers
LockBeginShared(p) ==
    /\ pc[p] = "Lock"
    /\ w' = p
    /\ pc' = [pc EXCEPT ![p] = "LockWait"]
    /\ UNCHANGED <<fs, now, ttl, cache, cacheTime, readers, sections, ret,
                   histVars>>
    /\ UNCHANGED <<logVars, mwVars>>

\* r.mu.Lock(), first half: one writer at a time gets past the other
\* writers, and from then on no new reader is admitted
LockBegin(p) ==
    /\ pc[p] = "Lock"
    /\ w = 0
    /\ w' = p
    /\ pc' = [pc EXCEPT ![p] = "LockWait"]
    /\ UNCHANGED <<fs, now, ttl, cache, cacheTime, readers, sections, ret,
                   histVars>>
    /\ UNCHANGED <<logVars, mwVars>>

\* a Lock that does not wait for the readers to leave
LockAcquireOverReaders(p) ==
    /\ pc[p] = "LockWait"
    /\ pc' = [pc EXCEPT ![p] = "recheck"]
    /\ snap' = Rec("refresh", [cache |-> cache, cacheTime |-> cacheTime],
                   snap)
    /\ UNCHANGED <<fs, now, ttl, cache, cacheTime, readers, w, sections,
                   ret, lastRefresh, inWindow, failedSince, quiet, prev,
                   track>>
    /\ UNCHANGED <<logVars, mwVars>>

\* r.mu.Lock(), second half: the writer waits for the readers to leave
LockAcquire(p) ==
    /\ pc[p] = "LockWait"
    /\ readers = {}
    /\ pc' = [pc EXCEPT ![p] = "recheck"]
    /\ snap' = Rec("refresh", [cache |-> cache, cacheTime |-> cacheTime],
                   snap)
    /\ UNCHANGED <<fs, now, ttl, cache, cacheTime, readers, w, sections,
                   ret, lastRefresh, inWindow, failedSince, quiet, prev,
                   track>>
    /\ UNCHANGED <<logVars, mwVars>>

\* a second if that looks at the root before it looks at the cache
CheckWriteStatFirst(p) ==
    /\ pc[p] = "recheck"
    /\ IF StatFails(fs.root)
       THEN /\ ret' = [ret EXCEPT ![p] =
                         [src |-> "cache", err |-> TRUE, list |-> NilSlice]]
            /\ pc' = [pc EXCEPT ![p] = "Unlock"]
       ELSE IF Fresh
       THEN /\ ret' = [ret EXCEPT ![p] =
                         [src |-> "cache", err |-> FALSE, list |-> cache]]
            /\ pc' = [pc EXCEPT ![p] = "Unlock"]
       ELSE /\ pc' = [pc EXCEPT ![p] = "stat"]
            /\ UNCHANGED ret
    /\ UNCHANGED <<fs, now, ttl, cache, cacheTime, readers, w, sections,
                   histVars>>
    /\ UNCHANGED <<logVars, mwVars>>

\* a second if that returns without the list
CheckWriteDropsList(p) ==
    /\ pc[p] = "recheck"
    /\ IF Fresh
       THEN /\ ret' = [ret EXCEPT ![p] =
                         [src |-> "cache", err |-> FALSE, list |-> NilSlice]]
            /\ pc' = [pc EXCEPT ![p] = "Unlock"]
       ELSE /\ pc' = [pc EXCEPT ![p] = "stat"]
            /\ UNCHANGED ret
    /\ UNCHANGED <<fs, now, ttl, cache, cacheTime, readers, w, sections,
                   histVars>>
    /\ UNCHANGED <<logVars, mwVars>>

\* the second if, under the write lock
CheckWrite(p) ==
    /\ pc[p] = "recheck"
    /\ IF Fresh
       THEN /\ ret' = [ret EXCEPT ![p] =
                         [src |-> "cache", err |-> FALSE, list |-> cache]]
            /\ pc' = [pc EXCEPT ![p] = "Unlock"]
       ELSE /\ pc' = [pc EXCEPT ![p] = "stat"]
            /\ UNCHANGED ret
    /\ UNCHANGED <<fs, now, ttl, cache, cacheTime, readers, w, sections,
                   histVars>>
    /\ UNCHANGED <<logVars, mwVars>>

\* a failed scan that evicts the cached list
ScanStatEvict(p) ==
    /\ pc[p] = "stat"
    /\ IF StatFails(fs.root)
       THEN /\ ret' = [ret EXCEPT ![p] =
                         [src |-> "scan", err |-> TRUE, list |-> NilSlice]]
            /\ pc' = [pc EXCEPT ![p] = "Unlock"]
            /\ cache' = NilSlice
       ELSE /\ pc' = [pc EXCEPT ![p] = "walk"]
            /\ UNCHANGED <<ret, cache>>
    /\ UNCHANGED <<fs, now, ttl, cacheTime, readers, w, sections, histVars>>
    /\ UNCHANGED <<logVars, mwVars>>

\* a failed scan that is remembered for a ttl like a successful one
ScanStatRemember(p) ==
    /\ pc[p] = "stat"
    /\ IF StatFails(fs.root)
       THEN /\ ret' = [ret EXCEPT ![p] =
                         [src |-> "scan", err |-> TRUE, list |-> NilSlice]]
            /\ pc' = [pc EXCEPT ![p] = "Unlock"]
            /\ cacheTime' = TimeAt(now)
       ELSE /\ pc' = [pc EXCEPT ![p] = "walk"]
            /\ UNCHANGED <<ret, cacheTime>>
    /\ UNCHANGED <<fs, now, ttl, cache, readers, w, sections, histVars>>
    /\ UNCHANGED <<logVars, mwVars>>

\* r.scan() begins: os.Stat(r.dir); when it fails GetSections returns
\* nil and the error
ScanStat(p) ==
    /\ pc[p] = "stat"
    /\ IF StatFails(fs.root)
       THEN /\ ret' = [ret EXCEPT ![p] =
                         [src |-> "scan", err |-> TRUE, list |-> NilSlice]]
            /\ pc' = [pc EXCEPT ![p] = "Unlock"]
       ELSE /\ pc' = [pc EXCEPT ![p] = "walk"]
            /\ UNCHANGED ret
    /\ UNCHANGED <<fs, now, ttl, cache, cacheTime, readers, w, sections,
                   histVars>>
    /\ UNCHANGED <<logVars, mwVars>>

\* the rest of r.scan(): the walk and the assembly of sections
ScanTree(p) ==
    /\ pc[p] = "walk"
    /\ sections' = [sections EXCEPT ![p] = ScanWalk(fs.root, fs.tree)]
    /\ pc' = [pc EXCEPT ![p] = "store"]
    /\ UNCHANGED <<fs, now, ttl, cache, cacheTime, readers, w, ret,
                   histVars>>
    /\ UNCHANGED <<logVars, mwVars>>

\* r.cache = sections
StoreCache(p) ==
    /\ pc[p] = "store"
    /\ cache' = sections[p]
    /\ pc' = [pc EXCEPT ![p] = "stamp"]
    /\ UNCHANGED <<fs, now, ttl, cacheTime, readers, w, sections, ret,
                   histVars>>
    /\ UNCHANGED <<logVars, mwVars>>

\* r.cacheTime = time.Now(); return sections, nil
StoreTime(p) ==
    /\ pc[p] = "stamp"
    /\ cacheTime' = TimeAt(now)
    /\ ret' = [ret EXCEPT ![p] =
                 [src |-> "scan", err |-> FALSE, list |-> sections[p]]]
    /\ pc' = [pc EXCEPT ![p] = "Unlock"]
    /\ lastRefresh' = [done |-> TRUE, at |-> now, list |-> sections[p]]
    /\ inWindow' = [q \in Procs |-> FALSE]
    /\ failedSince' = FALSE
    /\ UNCHANGED <<fs, now, ttl, cache, readers, w, sections, snap, quiet,
                   prev, track>>
    /\ UNCHANGED <<logVars, mwVars>>

\* the deferred r.mu.Unlock() and the return
Unlock(p) ==
    /\ pc[p] = "Unlock"
    /\ w' = 0
    /\ pc' = [pc EXCEPT ![p] = "idle"]
    /\ ret' = [ret EXCEPT ![p] = NoRet]
    /\ sections' = [sections EXCEPT ![p] = NilSlice]
    /\ snap' = NoSnap
    /\ inWindow' = [inWindow EXCEPT ![p] = FALSE]
    /\ failedSince' = Rec("refresh", failedSince \/ ret[p].err, failedSince)
    /\ quiet' = [quiet EXCEPT ![p] = FALSE]
    /\ prev' = IF quiet[p] THEN Returned(ret[p]) ELSE prev
    /\ UNCHANGED <<fs, now, ttl, cache, cacheTime, readers, lastRefresh,
                   track>>
    /\ UNCHANGED <<logVars, mwVars>>

\* time passes
Tick ==
    /\ now < MaxTime
    /\ now' = now + 1
    /\ IF lastRefresh.done /\ now' >= lastRefresh.at + ttl
       THEN quiet' = [p \in Procs |-> FALSE] /\ prev' = NoPrev
       ELSE UNCHANGED <<quiet, prev>>
    /\ UNCHANGED <<fs, ttl, cache, cacheTime, readers, w, pc, sections, ret,
                   snap, lastRefresh, inWindow, failedSince, track>>
    /\ UNCHANGED <<logVars, mwVars>>

\* the directory changes on disk: files come and go, the root is removed
\* or put back
ChangeFS ==
    /\ fs' \in FileSystems \ {fs}
    /\ quiet' = [p \in Procs |-> FALSE]
    /\ prev' = NoPrev
    /\ UNCHANGED <<now, ttl, cache, cacheTime, readers, w, pc, sections,
                   ret, snap, lastRefresh, inWindow, failedSince, track>>
    /\ UNCHANGED <<logVars, mwVars>>

Next ==
    \/ \E p \in Procs : Call(p)
    \/ \E p \in Procs : RLock(p)
    \/ \E p \in Procs : CheckRead(p)
    \/ \E p \in Procs : ReturnCached(p)
    \/ \E p \in Procs : RUnlock(p)
    \/ \E p \in Procs : LockBegin(p)
    \/ \E p \in Procs : LockAcquire(p)
    \/ \E p \in Procs : CheckWrite(p)
    \/ \E p \in Procs : ScanStat(p)
    \/ \E p \in Procs : ScanTree(p)
    \/ \E p \in Procs : StoreCache(p)
    \/ \E p \in Procs : StoreTime(p)
    \/ \E p \in Procs : Unlock(p)
    \/ Tick
    \/ ChangeFS

Spec == Init /\ [][Next]_vars

\* the same program, recording the history of the calls
CallsSpec == CallsInit /\ [][Next]_vars

\* the same program with no history recorded
FairInit ==
    /\ NewDocRepository(FileSystems, 0..MaxTTL)
    /\ track = "none"
    /\ NoWriter
    /\ NoRequests

\* the step ScanTree(p), told by where it takes the goroutine: the walk
\* of a finite tree is always able to finish
Walks(p) ==
    /\ pc[p] = "walk"
    /\ pc' = [pc EXCEPT ![p] = "store"]

\* the steps of GetSections that, once they can be taken, can be taken
\* until they are: the scheduler runs a goroutine that can run, each scan
\* terminates, and a writer that has shut the readers out waits for the
\* readers that are in to leave
Runs(p) ==
    \/ CheckRead(p)
    \/ ReturnCached(p)
    \/ RUnlock(p)
    \/ LockAcquire(p)
    \/ CheckWrite(p)
    \/ ScanStat(p)
    \/ Walks(p)
    \/ StoreCache(p)
    \/ StoreTime(p)
    \/ Unlock(p)

\* the steps that compete for the lock with the writers that come and go
Acquires(p) == RLock(p) \/ LockBegin(p)

\* sync.RWMutex is fair: a goroutine that could take the lock again and
\* again does take it
Fairness ==
    \A p \in Procs : WF_pc(Runs(p)) /\ SF_pc(Acquires(p))

\* the goroutines and the clock, on a directory that does not change
FairNext ==
    \/ \E p \in Procs : Call(p)
    \/ \E p \in Procs : RLock(p)
    \/ \E p \in Procs : CheckRead(p)
    \/ \E p \in Procs : ReturnCached(p)
    \/ \E p \in Procs : RUnlock(p)
    \/ \E p \in Procs : LockBegin(p)
    \/ \E p \in Procs : LockAcquire(p)
    \/ \E p \in Procs : CheckWrite(p)
    \/ \E p \in Procs : ScanStat(p)
    \/ \E p \in Procs : ScanTree(p)
    \/ \E p \in Procs : StoreCache(p)
    \/ \E p \in Procs : StoreTime(p)
    \/ \E p \in Procs : Unlock(p)
    \/ Tick

\* the program under a fair scheduler and a fair lock; the callers and the
\* clock are free to act or not
FairSpec == FairInit /\ [][FairNext]_vars /\ Fairness

\* one goroutine calls GetSections again and again on a directory that
\* does not change
ScanNext ==
    \/ Call(1)
    \/ RLock(1)
    \/ CheckRead(1)
    \/ ReturnCached(1)
    \/ RUnlock(1)
    \/ LockBegin(1)
    \/ LockAcquire(1)
    \/ CheckWrite(1)
    \/ ScanStat(1)
    \/ ScanTree(1)
    \/ StoreCache(1)
    \/ StoreTime(1)
    \/ Unlock(1)

\* scan applied to every directory of ScanInputs
ScanSpec == ScanInit /\ [][ScanNext]_vars

-----------------------------------------------------------------------------
(* The rotating writer and the goroutines writing to it *)

\* newRotatingWriter(filename, maxSize) has returned a writer: the log file
\* was there with some bytes or has been created, and is open
newRotatingWriter ==
    /\ \E data \in BoundedSeq(LogBytes, MaxWriteLen), max \in 1..MaxLogSize :
          /\ rw = [file |-> TRUE, size |-> Len(data), maxSize |-> max]
          /\ disk = [log |-> [exists |-> TRUE, data |-> data],
                     rotated |-> NoFile]
    /\ wret = NoWrite

\* a writer, and a repository that is not used
LogInit ==
    /\ NewDocRepository({[root |-> "missing", tree |-> {}]}, {0})
    /\ track = "refresh"
    /\ newRotatingWriter
    /\ NoRequests

\* the outcomes of the system calls a Write of p makes: the open when
\* rw.file is nil, the rename and the second open when the log is rotated,
\* and the number of bytes file.Write writes
Outcomes(p) ==
    LET rotates == NeedsRotate(IF rw.file THEN rw.size
                               ELSE Len(disk.log.data),
                               Len(p), rw.maxSize)
    IN  {o \in [openOK : BOOLEAN, renameOK : BOOLEAN, reopenOK : BOOLEAN,
                n : 0..Len(p)] :
            /\ rw.file => o.openOK
            /\ ~(o.openOK /\ rotates) => o.renameOK
            /\ ~(o.openOK /\ rotates /\ o.renameOK) => o.reopenOK
            /\ ~(o.openOK /\ o.renameOK /\ o.reopenOK) => o.n = 0}

\* rw.Write(p), from rw.mu.Lock() to the deferred Unlock: the calls of
\* open, os.Rename, open and file.Write succeed or fail as the system
\* decides
Write(p) ==
    /\ \E o \in Outcomes(p) :
          LET res == WriteBody([rw |-> rw, disk |-> disk], p,
                               o.openOK, o.renameOK, o.reopenOK, o.n)
          IN  /\ rw' = res.st.rw
              /\ disk' = res.st.disk
              /\ wret' = [p |-> p, n |-> res.n, err |-> res.err]
    /\ UNCHANGED <<repoVars, mwVars>>

\* rw.Close()
Close ==
    /\ rw.file
    /\ rw' = [rw EXCEPT !.file = FALSE]
    /\ UNCHANGED <<disk, wret>>
    /\ UNCHANGED <<repoVars, mwVars>>

LogNext ==
    \/ \E p \in Payloads : Write(p)
    \/ Close

LogSpec == LogInit /\ [][LogNext]_vars

-----------------------------------------------------------------------------
(* loggingMiddleware(next) and the loggingResponseWriter.  accessLog is     *)
(* set before the server is started, and log.Logger writes one line at a    *)
(* time.                                                                    *)

\* the server calls the middleware with a request: lrw is made and
\* next.ServeHTTP(lrw, r) is called
ServeHTTP(r, path) ==
    /\ req[r].phase = "idle"
    /\ req' = [req EXCEPT ![r] = [NoRequest EXCEPT !.phase = "next",
                                                   !.path = path]]
    /\ UNCHANGED lines
    /\ UNCHANGED <<repoVars, logVars>>

\* lrw.Write with a status of 200 recorded whatever the status was
lrwWriteAlwaysOK(r, n) ==
    /\ req[r].phase = "next"
    /\ req[r].calls < MaxOps
    /\ req' = [req EXCEPT
                 ![r].lrw = [status |-> StatusOK, bytes |-> @.bytes + n],
                 ![r].sent = IF @ = 0 THEN StatusOK ELSE @,
                 ![r].calls = @ + 1,
                 ![r].hist = [@ EXCEPT !.wrote = TRUE,
                                       !.written = @ + n]]
    /\ UNCHANGED lines
    /\ UNCHANGED <<repoVars, logVars>>

\* the handler calls lrw.WriteHeader(statusCode): the status is recorded
\* and the call is handed on; the response takes the status of the first
\* call only
WriteHeader(r, statusCode) ==
    /\ req[r].phase = "next"
    /\ req[r].calls < MaxOps
    /\ req' = [req EXCEPT
                 ![r].lrw = [@ EXCEPT !.status = statusCode],
                 ![r].sent = IF @ = 0 THEN statusCode ELSE @,
                 ![r].calls = @ + 1,
                 ![r].hist = [@ EXCEPT !.code = statusCode]]
    /\ UNCHANGED lines
    /\ UNCHANGED <<repoVars, logVars>>

\* the handler calls lrw.Write(b) with at most MaxWriteLen bytes, and the
\* response under it reports n of them written: a status of zero becomes
\* 200, and n is added to bytes
lrwWrite(r, n) ==
    /\ req[r].phase = "next"
    /\ req[r].calls < MaxOps
    /\ req' = [req EXCEPT
                 ![r].lrw = [status |-> IF @.status = 0 THEN StatusOK
                                        ELSE @.status,
                             bytes |-> @.bytes + n],
                 ![r].sent = IF @ = 0 THEN StatusOK ELSE @,
                 ![r].calls = @ + 1,
                 ![r].hist = [@ EXCEPT !.wrote = TRUE,
                                       !.written = @ + n]]
    /\ UNCHANGED lines
    /\ UNCHANGED <<repoVars, logVars>>

\* next.ServeHTTP(lrw, r) returns; a response without a status is sent
\* as 200
Return(r) ==
    /\ req[r].phase = "next"
    /\ req' = [req EXCEPT ![r].phase = "log",
                          ![r].sent = IF @ = 0 THEN StatusOK ELSE @]
    /\ UNCHANGED lines
    /\ UNCHANGED <<repoVars, logVars>>

\* the line accessLog.Printf writes for a request: whose it is, the request
\* URI, lrw.status and lrw.bytes
AccessLine(r) ==
    [r |-> r, path |-> req[r].path, status |-> req[r].lrw.status,
     bytes |-> req[r].lrw.bytes]

\* the rest of the middleware: nothing for /healthz, one line for every
\* other path
LogRequest(r) ==
    /\ req[r].phase = "log"
    /\ lines' = IF req[r].path = HealthzPath THEN lines
                ELSE Append(lines, AccessLine(r))
    /\ req' = [req EXCEPT ![r].phase = "done"]
    /\ UNCHANGED <<repoVars, logVars>>

\* a server whose repository and log file are not used
MwInit ==
    /\ NewDocRepository({[root |-> "missing", tree |-> {}]}, {0})
    /\ track = "refresh"
    /\ NoWriter
    /\ NoRequests

MwNext ==
    \/ \E r \in Requests, path \in Paths : ServeHTTP(r, path)
    \/ \E r \in Requests, statusCode \in StatusCodes :
          WriteHeader(r, statusCode)
    \/ \E r \in Requests, n \in 0..MaxWriteLen : lrwWrite(r, n)
    \/ \E r \in Requests : Return(r)
    \/ \E r \in Requests : LogRequest(r)

MwSpec == MwInit /\ [][MwNext]_vars

-----------------------------------------------------------------------------
(* Properties of GetSections *)

\* the goroutine is inside r.scan()
InScan(p) == pc[p] \in {"stat", "walk"}

\* the goroutine is refreshing: inside r.scan() or publishing its result
InRefresh(p) == pc[p] \in {"stat", "walk", "store", "stamp"}

\* the step is the return of the goroutine's call
Returns(p) == pc[p] \in {"RUnlockReturn", "Unlock"} /\ pc'[p] = "idle"

\* the step is the goroutine's freshness test (either of the two ifs)
Tests(p) == pc[p] \in {"check", "recheck"} /\ pc'[p] # pc[p]

\* the step decides the return values of the goroutine's call
Decides(p) == ret[p] = NoRet /\ ret'[p] # NoRet

\* the deciding call began after the last refresh had completed and made
\* its first freshness test (which may be this step) before the ttl of that
\* refresh expired
DecidesInWindow(p) == IF pc[p] = "check" THEN inWindow'[p] ELSE inWindow[p]

\* the list a scan of the directory as it is now would find
ListOnDisk == ScanWalk(fs.root, fs.tree)

\* C1: at most one execution of scan() is in progress at any instant, and it
\* runs only while its goroutine holds the exclusive lock, no goroutine
\* holding the read lock.
C1_OneScanAtATime ==
    /\ Cardinality({p \in Procs : InScan(p)}) <= 1
    /\ \A p \in Procs : InScan(p) => w = p /\ readers = {}

\* C1 witness: one goroutine is scanning while another one, which also found
\* the cache stale, waits for the exclusive lock.
C1_Witness ==
    \E p, q \in Procs : p # q /\ InScan(p) /\ pc[q] = "Lock"

\* C2 as claimed: with ttl > 0, once a refresh has succeeded at time t, every
\* freshness test made before t + ttl (under the read lock or under the write
\* lock) answers with that refresh's list and starts no scan, whatever the
\* scan returned.
C2_OneScanPerWindow ==
    [][\A p \in Procs :
          (/\ ttl > 0
           /\ lastRefresh.done
           /\ now < lastRefresh.at + ttl
           /\ Tests(p))
          => /\ pc'[p] \in {"RUnlockReturn", "Unlock"}
             /\ ~ret'[p].err
             /\ ret'[p].list = lastRefresh.list]_vars

\* C3: a call whose scan fails returns the error and no list, changes no
\* other call's result, and leaves cache and cacheTime as they were when it
\* took the exclusive lock for its refresh attempt.
C3_FailedScanKeepsCache ==
    [][\A p \in Procs :
          (Returns(p) /\ ret[p].err)
          => /\ ret[p].list = NilSlice
             /\ cache' = snap.cache
             /\ cacheTime' = snap.cacheTime
             /\ \A q \in Procs \ {p} : ret'[q] = ret[q]]_vars

\* C3 witness: a call is about to return the error of its scan while a list
\* cached by an earlier refresh is in place.
C3_Witness ==
    \E p \in Procs : pc[p] = "Unlock" /\ ret[p].err /\ ~cache.isNil

\* C4 as claimed: a call made after a successful refresh that tests
\* freshness before the ttl has elapsed since that refresh returns the list
\* that refresh found (the old tree's), whatever the tree has become; a call
\* that tests freshness after the ttl has elapsed does not answer from the
\* cache but goes on to scan, and returns the list it has published.
C4_OldTreeUntilTTL ==
    [][\A p \in Procs :
          /\ (Decides(p) /\ DecidesInWindow(p))
             => ~ret'[p].err /\ ret'[p].list = lastRefresh.list
          /\ (/\ lastRefresh.done
              /\ now >= lastRefresh.at + ttl
              /\ pc[p] = "check"
              /\ pc'[p] # "check")
             => pc'[p] = "RUnlock"
          /\ (Returns(p) /\ ret[p].src = "scan" /\ ~ret[p].err)
             => ret[p].list = cache]_vars

\* C5: a list returned without error is the result of the call's own scan or
\* the list of the last successful refresh, taken when less than ttl had
\* passed since that refresh; an error comes with no list.
C5_NoStaleList ==
    [][\A p \in Procs :
          Decides(p)
          => IF ret'[p].err
             THEN ret'[p].list = NilSlice
             ELSE \/ pc[p] = "stamp" /\ ret'[p].list = sections[p]
                  \/ /\ pc[p] \in {"check", "recheck"}
                     /\ lastRefresh.done
                     /\ now - lastRefresh.at < ttl
                     /\ ret'[p].list = lastRefresh.list]_vars

\* C5 witness: a call answers from the fresh cache while the directory no
\* longer holds what the cache lists.
C5_Witness ==
    \E p \in Procs :
        /\ pc[p] = "RUnlockReturn"
        /\ ~ret[p].list.isNil
        /\ ret[p].list # ListOnDisk

\* cache and cacheTime are those of the last successful refresh, or the
\* initial pair when there has been none
PairOfLastRefresh ==
    IF lastRefresh.done
    THEN cache = lastRefresh.list /\ cacheTime = TimeAt(lastRefresh.at)
    ELSE cache = NilSlice /\ cacheTime = ZeroTime

\* C6: whenever a goroutine holds the read lock, cacheTime is the completion
\* time of the refresh that produced cache; and cache and cacheTime are
\* written only by the holder of the exclusive lock publishing the result
\* of its successful scan.
C6_PairReplacedAsAWhole ==
    /\ [](readers # {} => PairOfLastRefresh)
    /\ [][(cache' # cache \/ cacheTime' # cacheTime)
          => \E p \in Procs :
                /\ w = p
                /\ readers = {}
                /\ \/ pc[p] = "store" /\ cache' = sections[p]
                                      /\ cacheTime' = cacheTime
                   \/ pc[p] = "stamp" /\ cacheTime' = TimeAt(now)
                                      /\ cache' = cache]_vars

\* C6 witness: a goroutine holds the read lock on a cache that a refresh
\* filled after the clock had moved on.
C6_Witness ==
    /\ readers # {}
    /\ lastRefresh.done
    /\ lastRefresh.at > 0
    /\ ~cache.isNil

\* C7: while one goroutine refreshes, every other call in progress is
\* blocked in RLock or Lock, and no other call returns.
C7_CallsBlockDuringRefresh ==
    /\ [](\A p, q \in Procs :
             (p # q /\ InRefresh(p)) => pc[q] \in {"idle", "RLock", "Lock"})
    /\ [][\A p, q \in Procs :
             (p # q /\ InRefresh(p)) => ~Returns(q)]_vars

\* C7 witness: one goroutine is in its refresh and another call is waiting
\* for the read lock.
C7_Witness ==
    \E p, q \in Procs : p # q /\ InRefresh(p) /\ pc[q] = "RLock"

\* C8 as claimed: a returned list is the published cache at the return, so it
\* had not been replaced before the call acquired its lock; and a call that
\* arrives after a refresh has completed and tests freshness before that
\* refresh's ttl has expired returns that refresh's list.
C8_ListValidSinceLock ==
    [][\A p \in Procs :
          /\ (Returns(p) /\ ~ret[p].err) => ret[p].list = cache
          /\ (Decides(p) /\ DecidesInWindow(p))
             => ~ret'[p].err /\ ret'[p].list = lastRefresh.list]_vars

\* a scan has returned its sections and they are being published
Publishing == \E p \in Procs : pc[p] \in {"store", "stamp"}

\* C9: after a call has returned an error the cache stays stale until a scan
\* succeeds; a call that finds it stale under the exclusive lock scans; and a
\* successful scan replaces cache and cacheTime and returns the new list.
C9_FailureNotRemembered ==
    /\ []((failedSince /\ ~Publishing) => ~Fresh)
    /\ [][\A p \in Procs :
             /\ (Returns(p) /\ ret[p].err) => ~Fresh'
             /\ (pc[p] = "recheck" /\ pc'[p] # "recheck" /\ ~Fresh)
                => pc'[p] = "stat"
             /\ (pc[p] = "stamp" /\ pc'[p] # "stamp")
                => /\ cache = sections[p]
                   /\ cacheTime' = TimeAt(now)
                   /\ ret'[p] = [src |-> "scan", err |-> FALSE,
                                 list |-> sections[p]]]_vars

\* C9 witness: after a failed call, with an older list still cached, a later
\* call's scan has succeeded and is being published.
C9_Witness ==
    /\ failedSince
    /\ ~snap.cache.isNil
    /\ \E p \in Procs : pc[p] = "stamp"

\* C10: a call returns an error only when its own scan found the root
\* unavailable; a call that finds the cache fresh, at either test, returns
\* the cached list and no error, whatever the state of the root.
C10_ErrorOnlyFromScan ==
    [][\A p \in Procs :
          /\ (Decides(p) /\ ret'[p].err)
             => pc[p] = "stat" /\ StatFails(fs.root)
          /\ (Tests(p) /\ Fresh)
             => /\ pc'[p] \in {"RUnlockReturn", "Unlock"}
                /\ ~ret'[p].err
                /\ ret'[p].list = cache]_vars

\* C10 witness: a call is answered from the fresh cache at the re-check under
\* the exclusive lock while the root directory does not exist.
C10_Witness ==
    \E p \in Procs :
        /\ pc[p] = "Unlock"
        /\ ret[p].src = "cache"
        /\ ~ret[p].err
        /\ StatFails(fs.root)

\* C11: with ttl = 0 no freshness test is ever satisfied, and every call
\* returns what its own scan produced: the list it walked, or the error
\* of its os.Stat.
C11_ZeroTTLAlwaysScans ==
    [][ttl = 0 =>
         \A p \in Procs :
            /\ Tests(p) => pc'[p] \in {"RUnlock", "stat"}
            /\ Decides(p) =>
                  /\ pc[p] \in {"stat", "stamp"}
                  /\ ret'[p].src = "scan"
                  /\ ~ret'[p].err => ret'[p].list = sections[p]
            /\ Returns(p) => pc[p] = "Unlock" /\ ret[p].src = "scan"]_vars

\* with ttl = 0 a call is scanning although a list was stored at this
\* very instant
C11_Witness ==
    /\ ttl = 0
    /\ ~cache.isNil
    /\ ~cacheTime.zero /\ cacheTime.at = now
    /\ \E p \in Procs : pc[p] = "stat"

\* C12: two calls return deep-equal results (the same error, or the same
\* list) when the directory does not change from the beginning of the
\* first to the end of the second and the ttl window of the latest
\* refresh does not run out in between.
C12_Idempotent ==
    [][\A p \in Procs :
         (Returns(p) /\ quiet[p] /\ prev.set) =>
            /\ ret[p].err = prev.err
            /\ ret[p].list = prev.list]_vars

\* a second call is about to return a non-empty list in the window and
\* on the directory in which an earlier call returned
C12_Witness ==
    /\ prev.set /\ ~prev.list.isNil
    /\ \E p \in Procs :
          /\ quiet[p]
          /\ pc[p] \in {"RUnlockReturn", "Unlock"}
          /\ ret[p].src = "cache"

-----------------------------------------------------------------------------
(* Properties of scan *)

\* the goroutine holds the result of its scan in sections
Scanned(p) == pc[p] \in {"store", "stamp"}

\* the name ends in .pdf, in any mix of upper and lower case
IsPdfName(n) ==
    /\ Len(n) >= 4
    /\ n[Len(n) - 3] = 46
    /\ n[Len(n) - 2] \in {112, 80}
    /\ n[Len(n) - 1] \in {100, 68}
    /\ n[Len(n)] \in {102, 70}

\* the regular files directly under the root
RootFiles == {f \in fs.tree : f.kind = "file" /\ Len(f.path) = 1}

RootPdfs == {f \in RootFiles : IsPdfName(f.path[1])}

\* the documents are in ascending order of their lower-cased names
DocsSorted(docs) ==
    \A i, j \in 1..Len(docs) :
        i < j => ~StrLess(ToLower(docs[j].Name), ToLower(docs[i].Name))

\* the document of each file of the set, once each, and nothing else
DocsAreExactly(docs, files) ==
    /\ Len(docs) = Cardinality(files)
    /\ \A f \in files :
          \E i \in 1..Len(docs) :
             /\ docs[i].Name = f.path[Len(f.path)]
             /\ docs[i].URL = DocsBase \o JoinPath(f.path)
             /\ \A j \in 1..Len(docs) : docs[j].Name = docs[i].Name => j = i

\* C13: every file directly under the root whose name ends in .pdf (in any
\* case) is once in the documents of the first section, which is named
\* General, sorted by lower-cased name; the other files of the root are
\* in no section.
C13_RootPdfsInGeneral ==
    \A p \in Procs :
        (Scanned(p) /\ fs.root = "dir") =>
            LET out == sections[p].elems
            IN  /\ RootPdfs # {} =>
                      /\ Len(out) >= 1
                      /\ out[1].Name = GeneralName
                      /\ DocsAreExactly(out[1].Documents.elems, RootPdfs)
                      /\ DocsSorted(out[1].Documents.elems)
                /\ \A f \in RootFiles \ RootPdfs :
                      \A s \in 1..Len(out) :
                         \A i \in 1..Len(out[s].Documents.elems) :
                            out[s].Documents.elems[i].URL
                               # DocsBase \o f.path[1]

\* a scan of a root with a.pdf, B.PDF and another file
C13_Witness ==
    \E p \in Procs :
        /\ Scanned(p)
        /\ {File(<<NameA>>), File(<<NameB>>), File(<<NameN>>)}
              \subseteq fs.tree
        /\ Len(sections[p].elems[1].Documents.elems) = 2
        /\ sections[p].elems[1].Documents.elems[1].Name = NameA

\* the directories below the root that have a file in them or below them
Dirs ==
    UNION {{SubSeq(f.path, 1, k) : k \in 1..(Len(f.path) - 1)} :
              f \in {g \in fs.tree : g.kind = "file"}}

\* the regular files directly in directory D
DirectFiles(D) ==
    {f \in fs.tree :
        f.kind = "file" /\ Len(f.path) = Len(D) + 1 /\ IsAbove(D, f.path)}

DirectPdfs(D) == {f \in DirectFiles(D) : IsPdfName(f.path[Len(f.path)])}

\* the name is readme.md, in any mix of upper and lower case
IsReadmeName(n) ==
    /\ Len(n) = 9
    /\ \A i \in 1..9 :
          \/ n[i] = ReadmeName[i]
          \/ ReadmeName[i] >= 97 /\ n[i] = ReadmeName[i] - 32

DirectReadmes(D) ==
    {f \in DirectFiles(D) : IsReadmeName(f.path[Len(f.path)])}

\* the walk can read D and every directory above it
DirRead(D) ==
    ~\E d \in fs.tree :
        d.kind = "dir" /\ ~d.readable /\ (d.path = D \/ IsAbove(d.path, D))

\* the READMEs of D that can be read
ReadReadmes(D) == {f \in DirectReadmes(D) : f.readable}

\* the one of them the walk visits last
LastReadme(D) ==
    CHOOSE f \in ReadReadmes(D) :
        \A g \in ReadReadmes(D) \ {f} :
            StrLess(g.path[Len(g.path)], f.path[Len(f.path)])

\* the README that is left to D renders to something
ReadmeLeft(D) == ReadReadmes(D) # {} /\ LastReadme(D).nodes # <<>>

\* the sections of the directories: all but the leading General
DirSections(out) ==
    IF RootPdfs # {} THEN SubSeq(out, 2, Len(out)) ELSE out

\* exactly one of the sections is named after D and it has the PDFs
\* directly in D as its documents, sorted
OneSectionOf(secs, D) ==
    \E s \in 1..Len(secs) :
        /\ secs[s].Name = JoinPath(D)
        /\ \A t \in 1..Len(secs) : secs[t].Name = JoinPath(D) => t = s
        /\ DocsAreExactly(secs[s].Documents.elems, DirectPdfs(D))
        /\ DocsSorted(secs[s].Documents.elems)

C15_NoEmptySection ==
    \A p \in Procs :
        (Scanned(p) /\ fs.root = "dir") =>
            LET out == sections[p].elems
                secs == DirSections(out)
            IN  /\ \A s \in 1..Len(out) :
                      \/ Len(out[s].Documents.elems) >= 1
                      \/ out[s].Readme # <<>>
                /\ \A D \in Dirs :
                      (DirectPdfs(D) = {} /\ DirectReadmes(D) = {}) =>
                          /\ \A s \in 1..Len(secs) :
                                secs[s].Name # JoinPath(D)
                          /\ \A E \in Dirs :
                                (/\ IsAbove(D, E)
                                 /\ DirRead(E)
                                 /\ DirectPdfs(E) # {}) =>
                                    \E s \in 1..Len(secs) :
                                       secs[s].Name = JoinPath(E)

\* a scan of HR with a file that is no document and HR/2025 with a PDF:
\* the only section is HR/2025
C15_Witness ==
    \E p \in Procs :
        /\ Scanned(p)
        /\ fs.tree = {File(<<NameHR, NameN>>),
                       File(<<NameHR, Name2025, NameP>>)}
        /\ Len(sections[p].elems) = 1
        /\ sections[p].elems[1].Name = JoinPath(<<NameHR, Name2025>>)

\* C16: the General section is there exactly when the root has a PDF, and
\* then it is first; after it come the sections of directories, in strictly
\* ascending byte-wise order of their paths, whatever the order in which
\* the walk met them.
C16_SectionOrder ==
    \A p \in Procs :
        (Scanned(p) /\ fs.root = "dir") =>
            LET out == sections[p].elems
                secs == DirSections(out)
            IN  /\ RootPdfs # {} =>
                      Len(out) >= 1 /\ out[1].Name = GeneralName
                /\ \A s \in 1..Len(secs) :
                      \E D \in Dirs : secs[s].Name = JoinPath(D)
                /\ \A i, j \in 1..Len(secs) :
                      i < j => StrLess(secs[i].Name, secs[j].Name)

\* a scan that puts HR-old between HR and HR/2025, after General, although
\* the walk goes through HR/2025 before it comes to HR-old
C16_Witness ==
    \E p \in Procs :
        /\ Scanned(p)
        /\ WalkBefore(File(<<NameHR, Name2025, NameP>>),
                      File(<<NameHROld, NameB>>))
        /\ Len(sections[p].elems) = 4
        /\ sections[p].elems[1].Name = GeneralName
        /\ sections[p].elems[2].Name = NameHR
        /\ sections[p].elems[3].Name = NameHROld
        /\ sections[p].elems[4].Name = JoinPath(<<NameHR, Name2025>>)

\* C17: scan gets past os.Stat only when the root is a directory that can
\* be used, and fails with its error whenever the root does not exist,
\* cannot be accessed or is not a directory; on a usable root it does not
\* fail.
C17_RootUnavailable ==
    \A p \in Procs :
        /\ (pc[p] = "walk" \/ Scanned(p)) => fs.root = "dir"
        /\ (ret[p].src = "scan" /\ ret[p].err) => fs.root # "dir"

\* the tree with every failure repaired: all files can be read, all
\* directories can be read
Healed(tree) ==
    {[f EXCEPT !.readable = TRUE] : f \in {g \in tree : g.kind = "file"}}

\* the tree without the entries on which the walk fails: the READMEs that
\* cannot be read, the directories that cannot be read and everything
\* below them.  The walk reads no other file: a PDF that cannot be read is
\* listed like any other.
Without(tree) ==
    {f \in tree :
        /\ f.kind = "file"
        /\ f.readable \/ ~IsReadmeName(f.path[Len(f.path)])
        /\ DirRead(SubSeq(f.path, 1, Len(f.path) - 1))}

\* a failure touches directory D: the walk cannot read it, or a README
\* directly in it cannot be read
Affected(D) ==
    \/ ~DirRead(D)
    \/ \E f \in DirectReadmes(D) : ~f.readable

\* the sections named after D
SectionsOf(secs, D) ==
    {secs[s] : s \in {t \in 1..Len(secs) : secs[t].Name = JoinPath(D)}}

\* C18: a README or a directory that cannot be read never makes scan fail;
\* the result is the one scan gives when the failing entries are not there
\* at all, General and the section of every directory no failure touches
\* are what they are when nothing fails, and a directory whose README
\* cannot be read keeps its documents.
C18_FailuresAreSkipped ==
    \A p \in Procs :
        fs.root = "dir" =>
            /\ ~(ret[p].src = "scan" /\ ret[p].err)
            /\ Scanned(p) =>
                  LET out == sections[p].elems
                      healed == ScanWalk("dir", Healed(fs.tree)).elems
                  IN  /\ sections[p] = ScanWalk("dir", Without(fs.tree))
                      /\ RootPdfs # {} =>
                            Len(out) >= 1 /\ out[1] = healed[1]
                      /\ \A D \in Dirs :
                            /\ ~Affected(D) =>
                                  SectionsOf(DirSections(out), D)
                                     = SectionsOf(DirSections(healed), D)
                            /\ DirRead(D) =>
                                  \A s \in SectionsOf(DirSections(out), D) :
                                     \E h \in SectionsOf(DirSections(healed),
                                                         D) :
                                        s.Documents = h.Documents

\* a scan that met a directory and a README it could not read: nothing of
\* HR, and the other directory with its document and no readme
C18_Witness ==
    \E p \in Procs :
        /\ Scanned(p)
        /\ fs.tree = {UnreadableDir(<<NameHR>>), File(<<NameHR, NameH>>),
                       File(<<GeneralName, NameA>>),
                       Unreadable(Readme(<<GeneralName, NameReadme>>,
                                         ReadmeNodes))}
        /\ Len(sections[p].elems) = 1
        /\ sections[p].elems[1].Name = GeneralName
        /\ Len(sections[p].elems[1].Documents.elems) = 1
        /\ sections[p].elems[1].Readme = <<>>

\* d begins with the literal, upper and lower case taken as the same
StartsWithFold(d, literal) ==
    /\ Len(d) >= Len(literal)
    /\ \A i \in 1..Len(literal) : LowerByte(d[i]) = literal[i]

\* the destination starts neither with "/" nor with http:// or https://
Relative(d) ==
    /\ ~(Len(d) >= 1 /\ d[1] = 47)
    /\ ~StartsWithFold(d, <<104, 116, 116, 112, 58, 47, 47>>)
    /\ ~StartsWithFold(d, <<104, 116, 116, 112, 115, 58, 47, 47>>)

\* C19: in the readme of a section every link and image destination that
\* starts neither with "/" nor, in any case, with http:// or https:// is
\* "/docs/" + the section's path + "/" + the destination; every other
\* destination is as written in the README; and no destination of the
\* result is relative, so rewriting it again changes nothing.
C19_RelativeLinksRewritten ==
    \A p \in Procs :
        (Scanned(p) /\ fs.root = "dir") =>
            \A D \in Dirs :
                (DirRead(D) /\ ReadmeLeft(D)) =>
                    \A s \in SectionsOf(DirSections(sections[p].elems), D) :
                        LET src == LastReadme(D).nodes
                            prefix == <<47, 100, 111, 99, 115, 47>>
                                         \o JoinPath(D) \o <<47>>
                        IN  /\ Len(s.Readme) = Len(src)
                            /\ \A i \in 1..Len(src) :
                                  /\ s.Readme[i].kind = src[i].kind
                                  /\ src[i].kind = "text" =>
                                        s.Readme[i] = src[i]
                                  /\ src[i].kind \in {"link", "image"} =>
                                        /\ s.Readme[i].dest =
                                              IF Relative(src[i].dest)
                                              THEN prefix \o src[i].dest
                                              ELSE src[i].dest
                                        /\ ~isRelativeURL(s.Readme[i].dest)
                                        /\ rewrite(s.Readme[i].dest, prefix)
                                              = s.Readme[i].dest

\* a scan of HR/README.md: img.png has become /docs/HR/img.png and
\* HTTPS://x is as it was
C19_Witness ==
    \E p \in Procs :
        /\ Scanned(p)
        /\ fs.tree = {Readme(<<NameHR, NameReadme>>, ReadmeNodes)}
        /\ Len(sections[p].elems) = 1
        /\ sections[p].elems[1].Readme[2].dest
              = DocsBase \o NameHR \o <<Slash>> \o NameImg
        /\ sections[p].elems[1].Readme[5].dest = DestHttpsUpper

-----------------------------------------------------------------------------
(* Properties of rotatingWriter *)

\* what the claim says of a Write of p: when the size of the log before it
\* plus len(p) is above maxSize, the log is the bytes of p afterwards and
\* the bytes it had are in the renamed file; otherwise nothing is renamed
\* and the log has grown by p, rw.size with it
RotatesOverMaxSize(p) ==
    IF Len(disk.log.data) + Len(p) > rw.maxSize
    THEN /\ disk'.log = [exists |-> TRUE, data |-> p]
         /\ disk'.rotated.exists
         /\ disk'.rotated.data = disk.log.data
         /\ rw'.size = Len(p)
    ELSE /\ disk'.rotated = disk.rotated
         /\ disk'.log = [exists |-> TRUE, data |-> disk.log.data \o p]
         /\ rw'.size = Len(disk.log.data) + Len(p)

WriteWith(p, o) ==
    LET res == WriteBody([rw |-> rw, disk |-> disk], p,
                         o.openOK, o.renameOK, o.reopenOK, o.n)
    IN  /\ rw' = res.st.rw
        /\ disk' = res.st.disk
        /\ wret' = [p |-> p, n |-> res.n, err |-> res.err]

\* C23, as claimed: a Write of p in which the log has to be rotated and
\* the rename fails still writes p to the log file and returns len(p) and
\* no error.
C23_RotationFailureTolerated ==
    [][\A p \in Payloads : \A o \in Outcomes(p) :
         (wret'.p = p /\ ~o.renameOK /\ WriteWith(p, o)) =>
             /\ ~wret'.err
             /\ wret'.n = Len(p)
             /\ disk'.log.data = disk.log.data \o p]_vars

\* the READMEs directly under the root
RootReadmes == {f \in RootFiles : IsReadmeName(f.path[1])}

-----------------------------------------------------------------------------
(* Properties of loggingMiddleware *)

\* the lines of accessLog written for request r
LinesOf(r) == SelectSeq(lines, LAMBDA l : l.r = r)

\* the status a handler has set: the code of its latest WriteHeader, 200
\* when it only wrote, none (0) when it did neither
StatusSet(h) == IF h.code # 0 THEN h.code
                ELSE IF h.wrote THEN StatusOK ELSE 0

\* C21: every request is passed to the wrapped handler; once the handler
\* has returned and the middleware is through, accessLog holds exactly one
\* line for a request whose path is not /healthz, with the request's path,
\* the status the handler set and the number of body bytes it wrote; it
\* holds no line for a request of /healthz, and none for a request whose
\* handler has not returned.
C21_OneLinePerRequest ==
    \A r \in Requests :
        /\ req[r].phase = "done" /\ req[r].path # HealthzPath
              => /\ Len(LinesOf(r)) = 1
                 /\ LinesOf(r)[1].path = req[r].path
                 /\ LinesOf(r)[1].status = StatusSet(req[r].hist)
                 /\ LinesOf(r)[1].bytes = req[r].hist.written
        /\ req[r].phase # "done" \/ req[r].path = HealthzPath
              => LinesOf(r) = <<>>

\* a document request whose handler set 404 and then wrote a byte has
\* been logged
C21_Witness ==
    \E r \in Requests :
        /\ req[r].phase = "done" /\ req[r].path = "/docs/test"
        /\ req[r].hist.code = 404 /\ req[r].hist.written = 1
        /\ LinesOf(r) # <<>>

-----------------------------------------------------------------------------
(* Termination of GetSections *)

\* the places where a caller waits for the lock
Waiting(p) == pc[p] \in {"RLock", "Lock", "LockWait"}

\* a caller between its call and its return that is not waiting for the
\* lock can take its next step
BlocksOnlyOnLock ==
    \A p \in Procs : pc[p] # "idle" /\ ~Waiting(p) => ENABLED <<Runs(p)>>_pc

\* a caller that requests the write lock holds no read lock
NoLockUpgrade ==
    \A p \in Procs : pc[p] \in {"Lock", "LockWait"} => p \notin readers

\* a caller that has returned holds neither lock
LocksReleased ==
    \A p \in Procs : pc[p] = "idle" => w # p /\ p \notin readers

\* whenever a call is under way, some caller can take a step
NoDeadlock ==
    (\E p \in Procs : pc[p] # "idle")
        => \E p \in Procs : ENABLED <<Runs(p) \/ Acquires(p)>>_pc

\* C22: under a fair scheduler and a fair lock every call of GetSections
\* returns; a caller waits only for the read or the write lock, never asks
\* for the write lock while it holds the read lock, holds no lock once it
\* has returned with a list or with an error, and the callers never block
\* each other for good.
C22_EveryCallReturns ==
    /\ [](BlocksOnlyOnLock /\ NoLockUpgrade /\ LocksReleased /\ NoDeadlock)
    /\ \A p \in Procs : (pc[p] # "idle") ~> (pc[p] = "idle")

\* a writer is about to unlock after a failed scan while another caller
\* waits for the read lock
C22_Witness ==
    \E p, q \in Procs :
        /\ pc[p] = "Unlock" /\ ret[p].err /\ w = p
        /\ pc[q] = "RLock"

=============================================================================
